---- MODULE Spec2Model ----
(***************************************************************************)
(* BrewPiProcess.py: the records of running BrewPi instances               *)
(* (BrewPiProcess) and the registry that enumerates them                   *)
(* (BrewPiProcesses), over an OS process table that changes on its own.    *)
(***************************************************************************)
EXTENDS Naturals, Sequences, FiniteSets, TLC

VARIABLES
    alive,   \* the pids of the OS process table
    myPid,   \* os.getpid() of the process that owns the registries
    list,    \* list[r]: self.list of registry r
    op,      \* the operation the last step ran ("env": the OS moved)
    reg,     \* the registry the last operation ran on
    arg,     \* the argument of the last operation
    ret,     \* what the last operation returned
    raised,  \* the exception that escaped the last operation, or "none"
    log,     \* the calls and reports the last operation made, in order
    table,   \* the process table as the last step found it
    old      \* list as the last step found it

vars == <<alive, myPid, list, op, reg, arg, ret, raised, log, table, old>>

\* ---------------------------------------------------------------- bounds
MaxPid == 3

Pids == 1..MaxPid
Regs == {"r1", "r2"}

\* Python's None
None == [py |-> "None"]

\* ------------------------------------------------- the OS process table
\* What runs under each pid while it is alive: psutil's name and cmdline,
\* and the user that owns the process.
Programs ==
    << [name |-> "python", user |-> "other",
        cmdline |-> <<"python", "brewpi.py", "b.cfg", "a.cfg">>],
       [name |-> "python2.7", user |-> "brewpi",
        cmdline |-> <<"python2.7", "/home/brewpi/brewpi.py">>],
       [name |-> "python", user |-> "brewpi",
        cmdline |-> <<"python", "other.py", "a.cfg">>],
       [name |-> "bash", user |-> "brewpi",
        cmdline |-> <<"bash", "brewpi.py", "c.cfg">>],
       [name |-> "python", user |-> "brewpi",
        cmdline |-> <<"python", "-u", "brewpi.py", "a.cfg">>] >>

Proc(pid) ==
    LET k == Programs[((pid - 1) % Len(Programs)) + 1]
    IN  [pid |-> pid, name |-> k.name, cmdline |-> k.cmdline, user |-> k.user]

\* Python's `sub in s` on strings
Substring(sub, s) ==
    \E i \in 1..(Len(s) + 1) :
        i + Len(sub) - 1 <= Len(s) /\ SubSeq(s, i, i + Len(sub) - 1) = sub

\* The strings of the process table and the substrings the code looks for
Strings ==
    UNION {{Programs[k].name} \cup {Programs[k].cmdline[i] :
                                      i \in 1..Len(Programs[k].cmdline)} :
           k \in 1..Len(Programs)}

Needles == {"python", "brewpi.py", ".cfg"}

\* `sub in s`, tabulated once over those strings
SubstringTable ==
    [sub \in Needles |-> [s \in Strings |-> Substring(sub, s)]]

Contains(sub, s) == SubstringTable[sub][s]

RECURSIVE Ascending(_)
Ascending(S) ==
    IF S = {} THEN <<>>
    ELSE LET m == CHOOSE x \in S : \A y \in S : x <= y
         IN  <<m>> \o Ascending(S \ {m})

\* psutil.process_iter(): the processes of the table, by ascending pid
process_iter(procs) ==
    LET ps == Ascending(procs) IN [i \in 1..Len(ps) |-> Proc(ps[i])]

\* ------------------------------------------- configuration and sockets
DefaultCfg ==
    [port |-> "/dev/ttyACM0", useInetSocket |-> FALSE,
     socketFile |-> "/home/brewpi/BEERSOCKET",
     socketHost |-> "localhost", socketPort |-> "6332"]

CfgFiles ==
    [f \in {"a.cfg", "b.cfg", "c.cfg"} |->
        CASE f = "a.cfg" -> [port |-> "/dev/ttyUSB0"]
          [] f = "b.cfg" -> [port |-> "/dev/ttyUSB1", useInetSocket |-> TRUE]
          [] f = "c.cfg" -> [useInetSocket |-> TRUE, socketPort |-> "6333"]]

\* util.readCfgWithDefaults: the file's values over the defaults; the
\* defaults alone when no file is given or the file is absent.
readCfgWithDefaults(cfgFile) ==
    IF cfgFile = "" \/ cfgFile \notin DOMAIN CfgFiles THEN DefaultCfg
    ELSE LET user == CfgFiles[cfgFile]
         IN  [k \in DOMAIN DefaultCfg |->
                 IF k \in DOMAIN user THEN user[k] ELSE DefaultCfg[k]]

\* BrewPiSocket.BrewPiSocket(cfg): the socket descriptor of a configuration
BrewPiSocket(cfg) ==
    IF cfg.useInetSocket
    THEN [type |-> "i", file |-> "None",
          host |-> cfg.socketHost, port |-> cfg.socketPort]
    ELSE [type |-> "f", file |-> cfg.socketFile,
          host |-> "localhost", port |-> "None"]

\* ------------------------------------------------------- BrewPiProcess
\* BrewPiProcess.__init__
BrewPiProcess == [pid |-> None, cfg |-> None, port |-> None, sock |-> None]

\* BrewPiSocket.connect(): a connection when some process listens on the
\* descriptor's address, nothing otherwise.
connect(sock, listening) ==
    \E p \in listening :
        BrewPiSocket(readCfgWithDefaults(
            LET c == SelectSeq(Proc(p).cmdline, LAMBDA s : Contains(".cfg", s))
            IN  IF c # <<>> THEN c[1] ELSE "")) = sock

\* quit() as it would be if it sent without looking at what connect() returned
quit_sendsUnconnected(self, listening) ==
    IF self.sock # None
    THEN << <<"connect", self.pid,
              IF connect(self.sock, listening) THEN "connected" ELSE "failed">>,
            <<"send", self.pid, "quit">>,
            <<"close", self.pid>>,
            <<"stdout", self.pid, "Quit message sent">> >>
    ELSE <<>>

\* BrewPiProcess.quit: what it does on the socket, with what connect()
\* returned, and what it prints
quit(self, listening) ==
    IF self.sock # None
    THEN IF connect(self.sock, listening)
         THEN << <<"connect", self.pid, "connected">>,
                 <<"send", self.pid, "quit">>,
                 <<"close", self.pid>>,
                 <<"stdout", self.pid, "Quit message sent">> >>
         ELSE << <<"connect", self.pid, "failed">>,
                 <<"stdout", self.pid, "Could not connect to socket">>,
                 <<"stdout", self.pid, "Could not send quit message">> >>
    ELSE <<>>

\* BrewPiProcess.kill, called by the process `caller` while the table holds
\* `procs`: psutil.Process(pid) raises NoSuchProcess outside the try block
\* when the pid is gone; process.kill() is refused for another user's
\* process, which is caught and reported.
kill(self, procs, caller) ==
    IF self.pid \notin procs
    THEN [log |-> <<>>, raised |-> "NoSuchProcess", procs |-> procs]
    ELSE IF Proc(self.pid).user # Proc(caller).user
    THEN [log |-> << <<"stderr", self.pid, "Cannot kill process">>,
                     <<"stderr", self.pid, "Is the process running under the same user?">> >>,
          raised |-> "none", procs |-> procs]
    ELSE [log |-> << <<"SIGKILL", self.pid>>,
                     <<"stdout", self.pid, "SIGKILL sent">> >>,
          raised |-> "none", procs |-> procs \ {self.pid}]

\* conflict() as it would be if it left the port out of the socket comparison
conflict_noSockPort(self, otherProcess) ==
    IF self.pid = otherProcess.pid THEN 0
    ELSE IF otherProcess.cfg = self.cfg THEN 1
    ELSE IF otherProcess.port = self.port THEN 1
    ELSE IF <<otherProcess.sock.type, otherProcess.sock.file, otherProcess.sock.host>>
            = <<self.sock.type, self.sock.file, self.sock.host>>
    THEN 1
    ELSE 0

\* BrewPiProcess.conflict
conflict(self, otherProcess) ==
    IF self.pid = otherProcess.pid THEN 0
    ELSE IF otherProcess.cfg = self.cfg THEN 1
    ELSE IF otherProcess.port = self.port THEN 1
    ELSE IF <<otherProcess.sock.type, otherProcess.sock.file,
              otherProcess.sock.host, otherProcess.sock.port>>
            = <<self.sock.type, self.sock.file, self.sock.host, self.sock.port>>
    THEN 1
    ELSE 0

\* ----------------------------------------------------- BrewPiProcesses
\* the filter of update(): 'python' in p.name and 'brewpi.py' in s, for
\* some s of p.cmdline
Matches(p) ==
    \E i \in 1..Len(p.cmdline) :
        Contains("python", p.name) /\ Contains("brewpi.py", p.cmdline[i])

\* parseProcess() as it would be if it took the last config-file argument
parseProcess_lastCfg(process) ==
    LET cfg     == SelectSeq(process.cmdline, LAMBDA s : Contains(".cfg", s))
        cfgFile == IF cfg # <<>> THEN cfg[Len(cfg)] ELSE ""
        bpcfg   == readCfgWithDefaults(cfgFile)
    IN  [pid |-> process.pid, cfg |-> bpcfg, port |-> bpcfg.port,
         sock |-> BrewPiSocket(bpcfg)]

\* BrewPiProcesses.parseProcess
parseProcess(process) ==
    LET cfg     == SelectSeq(process.cmdline, LAMBDA s : Contains(".cfg", s))
        cfgFile == IF cfg # <<>> THEN cfg[1] ELSE ""
        bpcfg   == readCfgWithDefaults(cfgFile)
    IN  [pid |-> process.pid, cfg |-> bpcfg, port |-> bpcfg.port,
         sock |-> BrewPiSocket(bpcfg)]

\* The loop of update() from its i-th matching process on, bpList holding
\* the records built so far. A process of `gone` has exited since it was
\* enumerated: reading its cmdline raises NoSuchProcess.
RECURSIVE updateLoop(_, _, _, _)
updateLoop(matching, i, bpList, gone) ==
    IF i > Len(matching) THEN [bpList |-> bpList, raised |-> "none"]
    ELSE IF matching[i].pid \in gone
    THEN [bpList |-> bpList, raised |-> "NoSuchProcess"]
    ELSE updateLoop(matching, i + 1,
                    Append(bpList, parseProcess(matching[i])), gone)

\* update() as it would be if it appended to self.list as it went
update_storesPartial(selfList, procs, gone) ==
    LET matching == SelectSeq(process_iter(procs), Matches)
        loop     == updateLoop(matching, 1, <<>>, gone)
    IN  IF loop.raised # "none"
        THEN [list |-> loop.bpList, ret |-> None, raised |-> loop.raised]
        ELSE [list |-> loop.bpList, ret |-> loop.bpList, raised |-> "none"]

\* update() as it would be if it extended self.list instead of replacing it
update_extends(selfList, procs, gone) ==
    LET matching == SelectSeq(process_iter(procs), Matches)
        loop     == updateLoop(matching, 1, <<>>, gone)
    IN  IF loop.raised # "none"
        THEN [list |-> selfList, ret |-> None, raised |-> loop.raised]
        ELSE [list |-> selfList \o loop.bpList, ret |-> selfList \o loop.bpList,
              raised |-> "none"]

\* BrewPiProcesses.update on a registry whose self.list is selfList: the
\* new self.list, the return value and the exception that escaped.
update(selfList, procs, gone) ==
    LET matching == SelectSeq(process_iter(procs), Matches)
        loop     == updateLoop(matching, 1, <<>>, gone)
    IN  IF loop.raised # "none"
        THEN [list |-> selfList, ret |-> None, raised |-> loop.raised]
        ELSE [list |-> loop.bpList, ret |-> loop.bpList, raised |-> "none"]

\* BrewPiProcesses.get
get(selfList) == selfList

\* BrewPiProcesses.me
me(myP) == parseProcess(Proc(myP))

\* BrewPiProcesses.findConflicts, from the i-th stored record on
RECURSIVE findConflictsFrom(_, _, _)
findConflictsFrom(selfList, process, i) ==
    IF i > Len(selfList) THEN 0
    ELSE IF process.pid = selfList[i].pid
    THEN findConflictsFrom(selfList, process, i + 1)
    ELSE IF conflict(process, selfList[i]) # 0 THEN 1
    ELSE findConflictsFrom(selfList, process, i + 1)

\* findConflicts() as it would be if it refreshed before it scanned
findConflicts_refreshed(selfList, process) ==
    findConflictsFrom(update(selfList, alive, {}).list, process, 1)

findConflicts(selfList, process) == findConflictsFrom(selfList, process, 1)

\* BrewPiProcesses.as_dict: update(), then the records of the others
as_dict(selfList, procs, gone, myP) ==
    LET u == update(selfList, procs, gone)
    IN  IF u.raised # "none"
        THEN [list |-> u.list, ret |-> None, raised |-> u.raised]
        ELSE [list |-> u.list, raised |-> "none",
              ret |-> SelectSeq(u.list, LAMBDA p : p.pid # myP)]

\* The loop of quitAll() over self.list, from its i-th record on
RECURSIVE quitLoop(_, _, _, _)
quitLoop(selfList, i, myP, listening) ==
    IF i > Len(selfList) THEN <<>>
    ELSE IF selfList[i].pid = myP THEN quitLoop(selfList, i + 1, myP, listening)
    ELSE << <<"quit", selfList[i].pid>> >> \o quit(selfList[i], listening)
            \o quitLoop(selfList, i + 1, myP, listening)

\* BrewPiProcesses.quitAll: update(), then quit() on the others
quitAll(selfList, procs, gone, myP, listening) ==
    LET u == update(selfList, procs, gone)
    IN  IF u.raised # "none"
        THEN [list |-> u.list, raised |-> u.raised, log |-> << <<"update">> >>]
        ELSE [list |-> u.list, raised |-> "none",
              log |-> << <<"update">> >> \o quitLoop(u.list, 1, myP, listening)]

\* The loop of killAll() as it would be without the test of the caller's pid
RECURSIVE killLoop_noSkip(_, _, _, _)
killLoop_noSkip(selfList, i, myP, procs) ==
    IF i > Len(selfList) THEN [log |-> <<>>, raised |-> "none", procs |-> procs]
    ELSE LET k == kill(selfList[i], procs, myP)
             call == << <<"kill", selfList[i].pid>> >>
         IN  IF k.raised # "none"
             THEN [log |-> call \o k.log, raised |-> k.raised, procs |-> k.procs]
             ELSE LET rest == killLoop_noSkip(selfList, i + 1, myP, k.procs)
                  IN  [log |-> call \o k.log \o rest.log,
                       raised |-> rest.raised, procs |-> rest.procs]

\* The loop of killAll() over self.list, from its i-th record on, the
\* table holding `procs`: it ends at the first exception.
RECURSIVE killLoop(_, _, _, _)
killLoop(selfList, i, myP, procs) ==
    IF i > Len(selfList) THEN [log |-> <<>>, raised |-> "none", procs |-> procs]
    ELSE IF selfList[i].pid = myP THEN killLoop(selfList, i + 1, myP, procs)
    ELSE LET k == kill(selfList[i], procs, myP)
             call == << <<"kill", selfList[i].pid>> >>
         IN  IF k.raised # "none"
             THEN [log |-> call \o k.log, raised |-> k.raised, procs |-> k.procs]
             ELSE LET rest == killLoop(selfList, i + 1, myP, k.procs)
                  IN  [log |-> call \o k.log \o rest.log,
                       raised |-> rest.raised, procs |-> rest.procs]

\* BrewPiProcesses.killAll: update(), then kill() on the others. `late`
\* exits between the refresh and the loop.
killAll(selfList, procs, gone, myP, late) ==
    LET u == update(selfList, procs, gone)
        k == killLoop(u.list, 1, myP, (procs \ gone) \ late)
    IN  IF u.raised # "none"
        THEN [list |-> u.list, raised |-> u.raised, procs |-> procs \ gone,
              log |-> << <<"update">> >>]
        ELSE [list |-> u.list, raised |-> k.raised, procs |-> k.procs,
              log |-> << <<"update">> >> \o k.log]

\* ------------------------------------------------------------- actions
Init ==
    /\ myPid \in Pids
    /\ alive = {myPid}
    /\ list = [r \in Regs |-> <<>>]
    /\ op = "init" /\ reg = "none" /\ arg = None /\ ret = None
    /\ raised = "none" /\ log = <<>> /\ table = alive /\ old = list

\* The OS starts a process, or one exits, between two calls.
Start(p) ==
    /\ p \notin alive
    /\ alive' = alive \cup {p}
    /\ op' = "env" /\ reg' = "none" /\ arg' = None /\ ret' = None
    /\ raised' = "none" /\ log' = <<>> /\ table' = alive /\ old' = list
    /\ UNCHANGED <<myPid, list>>

Exit(p) ==
    /\ p \in alive \ {myPid}
    /\ alive' = alive \ {p}
    /\ op' = "env" /\ reg' = "none" /\ arg' = None /\ ret' = None
    /\ raised' = "none" /\ log' = <<>> /\ table' = alive /\ old' = list
    /\ UNCHANGED <<myPid, list>>

\* At most one process exits during a call, and it is a controller: a
\* second exit, or the exit of a process the filter drops, changes
\* nothing the call sees.
Opt(S) == {{}} \cup {{p} : p \in S}

\* The controllers among procs: the processes that open a control socket
Controllers(procs) == {p \in procs : Matches(Proc(p))}

\* r.update(); the process of `gone` exits while it runs
Update(r) ==
    \E gone \in Opt(Controllers(alive) \ {myPid}) :
    \E u \in {update(list[r], alive, gone)} :
        /\ list' = [list EXCEPT ![r] = u.list]
        /\ alive' = alive \ gone
        /\ op' = "update" /\ reg' = r /\ arg' = None
        /\ ret' = u.ret /\ raised' = u.raised
        /\ log' = << <<"update">> >>
        /\ table' = alive /\ old' = list
        /\ UNCHANGED myPid

\* r.get()
Get(r) ==
    /\ op' = "get" /\ reg' = r /\ arg' = None
    /\ ret' = get(list[r]) /\ raised' = "none"
    /\ log' = <<>> /\ table' = alive /\ old' = list
    /\ UNCHANGED <<alive, myPid, list>>

\* r.me()
Me(r) ==
    /\ op' = "me" /\ reg' = r /\ arg' = None
    /\ ret' = me(myPid) /\ raised' = "none"
    /\ log' = <<>> /\ table' = alive /\ old' = list
    /\ UNCHANGED <<alive, myPid, list>>

\* r.findConflicts(process), process the record of some program
FindConflicts(r) ==
    \E p \in Pids :
        /\ op' = "findConflicts" /\ reg' = r /\ arg' = parseProcess(Proc(p))
        /\ ret' = findConflicts(list[r], parseProcess(Proc(p)))
        /\ raised' = "none"
        /\ log' = <<>> /\ table' = alive /\ old' = list
        /\ UNCHANGED <<alive, myPid, list>>

\* r.as_dict(); the process of `gone` exits while it refreshes
AsDict(r) ==
    \E gone \in Opt(Controllers(alive) \ {myPid}) :
    \E a \in {as_dict(list[r], alive, gone, myPid)} :
        /\ list' = [list EXCEPT ![r] = a.list]
        /\ alive' = alive \ gone
        /\ op' = "as_dict" /\ reg' = r /\ arg' = None
        /\ ret' = a.ret /\ raised' = a.raised
        /\ log' = << <<"update">> >>
        /\ table' = alive /\ old' = list
        /\ UNCHANGED myPid

\* r.quitAll(); the process of `gone` exits while it refreshes, the
\* controllers of `listening` accept connections while it runs its loop
QuitAll(r) ==
    \E gone \in Opt(Controllers(alive) \ {myPid}) :
    \E listening \in IF gone = {} THEN SUBSET Controllers(alive) ELSE {{}} :
    \E q \in {quitAll(list[r], alive, gone, myPid, listening)} :
        /\ list' = [list EXCEPT ![r] = q.list]
        /\ alive' = alive \ gone
        /\ op' = "quitAll" /\ reg' = r /\ arg' = None /\ ret' = None
        /\ raised' = q.raised /\ log' = q.log
        /\ table' = alive /\ old' = list
        /\ UNCHANGED myPid

\* r.killAll(); the process of `gone` exits while it refreshes, that of
\* `late` between the refresh and the loop
KillAll(r) ==
    \E gone \in Opt(Controllers(alive) \ {myPid}) :
    \E late \in IF gone = {} THEN Opt(Controllers(alive) \ {myPid}) ELSE {{}} :
    \E k \in {killAll(list[r], alive, gone, myPid, late)} :
        /\ list' = [list EXCEPT ![r] = k.list]
        /\ alive' = k.procs
        /\ op' = "killAll" /\ reg' = r /\ arg' = None /\ ret' = None
        /\ raised' = k.raised /\ log' = k.log
        /\ table' = alive /\ old' = list
        /\ UNCHANGED myPid

\* p.quit() on a record p that r.get() returned
Quit(r) ==
    \E i \in 1..Len(list[r]) :
    \E listening \in Opt(Controllers(alive)) :
        /\ op' = "quit" /\ reg' = r /\ arg' = list[r][i] /\ ret' = None
        /\ raised' = "none"
        /\ log' = << <<"quit", list[r][i].pid>> >> \o quit(list[r][i], listening)
        /\ table' = alive /\ old' = list
        /\ UNCHANGED <<alive, myPid, list>>

\* p.kill() on a record p of another process that r.get() returned
Kill(r) ==
    \E i \in 1..Len(list[r]) :
    \E k \in {kill(list[r][i], alive, myPid)} :
        /\ list[r][i].pid # myPid
        /\ alive' = k.procs
        /\ op' = "kill" /\ reg' = r /\ arg' = list[r][i] /\ ret' = None
        /\ raised' = k.raised
        /\ log' = << <<"kill", list[r][i].pid>> >> \o k.log
        /\ table' = alive /\ old' = list
        /\ UNCHANGED <<myPid, list>>

Next ==
    \/ \E p \in Pids : Start(p)
    \/ \E p \in Pids : Exit(p)
    \/ \E r \in Regs : Update(r)
    \/ \E r \in Regs : Get(r)
    \/ \E r \in Regs : Me(r)
    \/ \E r \in Regs : FindConflicts(r)
    \/ \E r \in Regs : AsDict(r)
    \/ \E r \in Regs : QuitAll(r)
    \/ \E r \in Regs : KillAll(r)
    \/ \E r \in Regs : Quit(r)
    \/ \E r \in Regs : Kill(r)

Spec == Init /\ [][Next]_vars

\* ------------------------------------- conflict() on arbitrary records
SockSet ==
    [type : {"f", "i"}, file : {"None", "/home/brewpi/BEERSOCKET"},
     host : {"localhost", "brewpi.local"}, port : {"None", "6332"}]

RecordSet ==
    [pid : 1..2,
     cfg : {readCfgWithDefaults(""), readCfgWithDefaults("a.cfg"),
            readCfgWithDefaults("b.cfg")},
     port : {"/dev/ttyACM0", "/dev/ttyUSB0"},
     sock : SockSet]

InitConflict ==
    /\ myPid = 1 /\ alive = {1}
    /\ list = [r \in Regs |-> <<>>]
    /\ op = "args" /\ reg = "none" /\ ret = None
    /\ arg \in RecordSet \X RecordSet
    /\ raised = "none" /\ log = <<>> /\ table = alive /\ old = list

\* a.conflict(b) for the pair <<a, b>> of arg
Conflict ==
    /\ op = "args"
    /\ op' = "conflict"
    /\ ret' = conflict(arg[1], arg[2])
    /\ UNCHANGED <<alive, myPid, list, reg, arg, raised, log, table, old>>

NextConflict == Conflict

SpecConflict == InitConflict /\ [][NextConflict]_vars

\* ---------------------------------------------------------- properties
\* The pids passed to `call` ("quit" or "kill") by the last operation, in order
Targets(call) ==
    LET c == SelectSeq(log, LAMBDA e : e[1] = call)
    IN  [i \in 1..Len(c) |-> c[i][2]]

Range(f) == {f[i] : i \in DOMAIN f}

\* What the last operation did and printed about pid p
EventsOf(p) == SelectSeq(log, LAMBDA e : Len(e) >= 2 /\ e[2] = p)

\* The controllers of the table the last operation enumerated, by pid
Enumerated == Ascending({p \in table : Matches(Proc(p))})

\* The records a refresh of that table builds
FreshList == [i \in 1..Len(Enumerated) |-> parseProcess(Proc(Enumerated[i]))]

\* The other controllers of that table, in enumeration order
FreshOthers == SelectSeq(Enumerated, LAMBDA p : p # myPid)

\* The refresh of the last operation escaped with an exception
RefreshFailed == raised # "none" /\ Targets("kill") = <<>> /\ Targets("quit") = <<>>

\* C1: quitAll() and killAll() never call quit() or kill() on the record of
\* the caller's own pid, and nothing they do or print concerns that pid.
C1_NeverSelf ==
    op \in {"quitAll", "killAll"} =>
        /\ myPid \notin Range(Targets("quit")) \cup Range(Targets("kill"))
        /\ EventsOf(myPid) = <<>>

\* C1 witness: a batch that ran over a list holding the caller's own record
\* and reached other records.
C1_Witness ==
    /\ op \in {"quitAll", "killAll"}
    /\ raised = "none"
    /\ \E i \in 1..Len(list[reg]) : list[reg][i].pid = myPid
    /\ Len(log) > 1

\* kill() was refused for the i-th record of the refreshed list
Denied(i) ==
    \E n \in 1..Len(log) :
        log[n] = <<"stderr", list[reg][i].pid, "Cannot kill process">>

\* the batch ended at the i-th record of the refreshed list
EndedAt(i) ==
    /\ raised # "none"
    /\ Targets("kill") # <<>>
    /\ Targets("kill")[Len(Targets("kill"))] = list[reg][i].pid

\* A permission failure alone never ends a batch: the exception does not
\* escape, and every later record of another process is passed to kill(),
\* up to a record the batch ends at for another reason.
DeniedDoesNotEndBatch ==
    op = "killAll" =>
        /\ raised # "AccessDenied"
        /\ \A i \in 1..Len(list[reg]) :
              Denied(i) =>
                /\ ~EndedAt(i)
                /\ \A j \in (i + 1)..Len(list[reg]) :
                      list[reg][j].pid # myPid =>
                          \/ list[reg][j].pid \in Range(Targets("kill"))
                          \/ \E k \in (i + 1)..(j - 1) : EndedAt(k)

\* C2: when killAll() reaches a record whose process it may not signal,
\* kill() reports it and raises nothing, every later record of another
\* process is passed to kill(), and the batch runs to completion.
C2_DeniedBatchCompletes ==
    op = "killAll" =>
        \A i \in 1..Len(list[reg]) :
            Denied(i) =>
                /\ raised = "none"
                /\ \A j \in (i + 1)..Len(list[reg]) :
                      list[reg][j].pid # myPid =>
                          list[reg][j].pid \in Range(Targets("kill"))

\* C3: a process that exits between the refresh and kill() is a reported
\* failure: no exception escapes kill() or killAll(), and killAll() passes
\* every other record of the refreshed list to kill().
C3_ExitedIsNotFatal ==
    /\ op = "kill" => raised = "none"
    /\ (op = "killAll" /\ ~RefreshFailed) =>
          /\ raised = "none"
          /\ Targets("kill") = FreshOthers

\* C4: a.conflict(b) is false when the pids are equal; otherwise it is true
\* exactly when the configurations are equal, or the ports are equal, or
\* the four socket fields are all equal.
C4_Conflict ==
    op = "conflict" =>
        LET a == arg[1]
            b == arg[2]
            sameSock ==
                /\ a.sock.type = b.sock.type /\ a.sock.file = b.sock.file
                /\ a.sock.host = b.sock.host /\ a.sock.port = b.sock.port
        IN  /\ ret \in {0, 1}
            /\ a.pid = b.pid => ret = 0
            /\ a.pid # b.pid =>
                  (ret = 1 <=> (a.cfg = b.cfg \/ a.port = b.port \/ sameSock))

\* C4 witness: conflict() answered for two records of different pids that
\* share nothing but their socket descriptor.
C4_Witness ==
    /\ op = "conflict"
    /\ ret = 1
    /\ arg[1].pid # arg[2].pid
    /\ arg[1].cfg # arg[2].cfg
    /\ arg[1].port # arg[2].port
    /\ arg[1].sock = arg[2].sock

\* C5: findConflicts(candidate) is true exactly when the stored list, as it
\* was before the call, holds a record of another pid that the candidate
\* conflicts with; the call leaves the stored list as it was.
C5_FindConflicts ==
    op = "findConflicts" =>
        /\ ret \in {0, 1}
        /\ ret = 1 <=>
              \E i \in 1..Len(old[reg]) :
                  /\ old[reg][i].pid # arg.pid
                  /\ conflict(arg, old[reg][i]) = 1
        /\ list = old

\* C5 witness: findConflicts() found nothing in a refreshed list while a
\* controller that is not in it runs and conflicts with the candidate.
C5_Witness ==
    /\ op = "findConflicts"
    /\ ret = 0
    /\ list[reg] # <<>>
    /\ \E p \in alive :
          /\ Matches(Proc(p))
          /\ p # arg.pid
          /\ \A i \in 1..Len(list[reg]) : list[reg][i].pid # p
          /\ conflict(arg, parseProcess(Proc(p))) = 1

\* C6: after update() the stored list is the records of the processes that
\* matched the filter at the enumeration, one each, in enumeration order,
\* and update() returns it; when building a record fails, the stored list
\* is the previous list.
C6_Update ==
    op = "update" =>
        /\ raised = "none" =>
              /\ Len(list[reg]) = Len(Enumerated)
              /\ \A i \in 1..Len(list[reg]) :
                    /\ list[reg][i].pid = Enumerated[i]
                    /\ list[reg][i].pid \in table
                    /\ Contains("python", Proc(list[reg][i].pid).name)
                    /\ \E n \in 1..Len(Proc(list[reg][i].pid).cmdline) :
                          Contains("brewpi.py", Proc(list[reg][i].pid).cmdline[n])
                    /\ list[reg][i] = parseProcess(Proc(Enumerated[i]))
              /\ ret = list[reg]
        /\ raised # "none" => list[reg] = old[reg]

\* C6 witness: update() failed on its second process, over a stored list
\* that was not empty.
C6_Witness ==
    /\ op = "update"
    /\ raised # "none"
    /\ old[reg] # <<>>
    /\ \E p \in table : \E g \in table \ alive :
          p < g /\ Matches(Proc(p)) /\ Matches(Proc(g))

\* C7: quit() opens one connection; connected, it sends one 'quit' and then
\* closes, and does nothing else on the socket; not connected, it sends
\* nothing and reports the failure; no exception escapes.
C7_Quit ==
    op \in {"quit", "quitAll"} =>
        /\ raised = "none" \/ RefreshFailed
        /\ \A p \in Range(Targets("quit")) :
              \/ EventsOf(p) = << <<"quit", p>>, <<"connect", p, "connected">>,
                                  <<"send", p, "quit">>, <<"close", p>>,
                                  <<"stdout", p, "Quit message sent">> >>
              \/ EventsOf(p) = << <<"quit", p>>, <<"connect", p, "failed">>,
                                  <<"stdout", p, "Could not connect to socket">>,
                                  <<"stdout", p, "Could not send quit message">> >>

\* C7 witness: one batch in which quit() connected to one process and
\* failed to connect to another.
C7_Witness ==
    /\ op = "quitAll"
    /\ \E p \in Range(Targets("quit")) : \E q \in Range(Targets("quit")) :
          /\ <<"send", p, "quit">> \in Range(log)
          /\ <<"stdout", q, "Could not connect to socket">> \in Range(log)

IsPrefix(s, t) == Len(s) <= Len(t) /\ \A i \in 1..Len(s) : s[i] = t[i]

\* quitAll() and killAll() refresh first and act on the fresh list only:
\* the pids they have targeted are a prefix of the freshly enumerated
\* controllers other than the caller, the whole of it when the batch ends
\* normally, and never a pid that only the stale list held.
TargetsArePrefix ==
    op \in {"quitAll", "killAll"} =>
        LET t == IF op = "quitAll" THEN Targets("quit") ELSE Targets("kill")
        IN  /\ log[1] = <<"update">>
            /\ IsPrefix(t, FreshOthers)
            /\ raised = "none" => t = FreshOthers
            /\ \A i \in 1..Len(old[reg]) :
                  old[reg][i].pid \notin table => old[reg][i].pid \notin Range(t)

\* C8: quitAll() and killAll() refresh first and then target exactly the
\* freshly enumerated controllers other than the caller, each once, in
\* enumeration order.
C8_TargetsExactlyFresh ==
    (op \in {"quitAll", "killAll"} /\ ~RefreshFailed) =>
        LET t == IF op = "quitAll" THEN Targets("quit") ELSE Targets("kill")
        IN  /\ log[1] = <<"update">>
            /\ t = FreshOthers

\* C9: a stored list changes only in the registry that refreshes, and only
\* to the list a refresh builds; get(), me() and findConflicts() leave every
\* list as it was, get() returning the stored list and me() a record of the
\* caller's pid.
C9_Frame ==
    /\ \A r \in Regs :
          list[r] # old[r] =>
              /\ r = reg
              /\ op \in {"update", "as_dict", "quitAll", "killAll"}
              /\ list[r] = FreshList
    /\ op \in {"get", "me", "findConflicts", "quit", "kill", "env"} => list = old
    /\ op = "get" => ret = old[reg]
    /\ op = "me" => ret = parseProcess(Proc(myPid))

\* C9 witness: a refresh replaced the non-empty list of one registry by a
\* different one, while the other registry holds yet another list.
C9_Witness ==
    /\ op \in {"update", "as_dict", "quitAll", "killAll"}
    /\ old[reg] # <<>>
    /\ list[reg] # old[reg]
    /\ \E r \in Regs \ {reg} : list[r] # <<>> /\ list[r] # list[reg]

\* The configuration of the first '.cfg' argument of a command line, the
\* defaults when it has none
CfgOf(cmdline) ==
    LET idx == {i \in 1..Len(cmdline) : Contains(".cfg", cmdline[i])}
    IN  IF idx = {} THEN DefaultCfg
        ELSE readCfgWithDefaults(cmdline[CHOOSE i \in idx : \A j \in idx : i <= j])

Derived(rec) ==
    /\ rec.cfg = CfgOf(Proc(rec.pid).cmdline)
    /\ rec.port = rec.cfg["port"]
    /\ rec.sock = BrewPiSocket(rec.cfg)

\* C10: every stored record, and every record me() returns, has the port of
\* its own configuration and the socket descriptor built from it; the
\* configuration is that of the first config-file argument of the process,
\* the defaults when it has none.
C10_Derived ==
    /\ \A r \in Regs : \A i \in 1..Len(list[r]) : Derived(list[r][i])
    /\ op = "me" => Derived(ret)

\* C10 witness: a stored list holding the record of a process started
\* without a config-file argument and that of one started with several.
C10_Witness ==
    \E r \in Regs : \E i \in 1..Len(list[r]) : \E j \in 1..Len(list[r]) :
        /\ \A n \in 1..Len(Proc(list[r][i].pid).cmdline) :
              ~Contains(".cfg", Proc(list[r][i].pid).cmdline[n])
        /\ list[r][i].port = DefaultCfg.port
        /\ Cardinality({n \in 1..Len(Proc(list[r][j].pid).cmdline) :
                          Contains(".cfg", Proc(list[r][j].pid).cmdline[n])}) > 1

====
